---- MODULE Spec2Model ----
(***************************************************************************)
(* Model of the email-validator GraphQL server.                            *)
(*                                                                         *)
(* Two entry scripts exist in the repository: src/server.js, which         *)
(* registers express.static, the /graphql handler and the /graphiql route, *)
(* and src/unnamed/part_000, which registers the same three and, between   *)
(* express.static and the /graphql handler, the addCacheHeaders            *)
(* middleware.  The variable `entry` says which script the process runs.   *)
(*                                                                         *)
(* Strings are sequences of one-character strings, so that the template    *)
(* literal of the resolver is a real concatenation and validator.isEmail   *)
(* is computed on the characters of its argument.                          *)
(***************************************************************************)
EXTENDS Integers, Sequences, FiniteSets, TLC

VARIABLES
    entry,      \* the script the process runs: "server.js" or "part_000"
    pc,         \* position of the entry script's top-level statements
    schema,     \* the executable schema: typeDefs and the resolver map
    app,        \* the Express middleware/route stack, in registration order
    inflight,   \* the requests received so far, each with its progress
    arg,        \* direct resolver call: the email argument
    ret         \* direct resolver call: what the call produced

vars == <<entry, pc, schema, app, inflight, arg, ret>>

----------------------------------------------------------------------------
(* Bounds *)

\* longest email string handed to the resolver in a direct call
MaxLen == 6

\* number of requests the server receives in one behaviour
MaxRequests == 2

----------------------------------------------------------------------------
(* Characters and strings *)

\* a UTF-16 code unit in D800..DFFF that is not part of a surrogate pair
LoneSurrogate == "\\uD800"

Alphabet == {"a", "@", ".", LoneSurrogate}

RECURSIVE StringsOfLen(_)
StringsOfLen(n) ==
    IF n = 0 THEN {<<>>}
    ELSE {Append(s, c) : s \in StringsOfLen(n - 1), c \in Alphabet}

Strings == UNION {StringsOfLen(n) : n \in 0..MaxLen}

\* String.prototype.split(c)
RECURSIVE Split(_, _)
Split(s, c) ==
    IF \A i \in 1..Len(s) : s[i] # c
    THEN <<s>>
    ELSE LET i == CHOOSE k \in 1..Len(s) :
                      s[k] = c /\ \A j \in 1..(k - 1) : s[j] # c
         IN  <<SubSeq(s, 1, i - 1)>> \o Split(SubSeq(s, i + 1, Len(s)), c)

\* Array.prototype.join(c)
RECURSIVE Join(_, _)
Join(parts, c) ==
    IF Len(parts) = 0 THEN <<>>
    ELSE IF Len(parts) = 1 THEN parts[1]
    ELSE parts[1] \o <<c>> \o Join(Tail(parts), c)

----------------------------------------------------------------------------
(* validator.isEmail with its default options, as called by the resolver *)

\* what a call of the checker produces: a boolean, or an exception
True  == "true"
False == "false"
Throw == "throw"

Bool(b) == IF b THEN True ELSE False

defaultMaxEmailLength == 254
MaxUserBytes == 64
MaxDomainBytes == 254
MaxLabelLength == 63

IsLetter(ch) == ch = "a"

\* encodeURI(str) raises URIError on a lone surrogate
encodeURIThrows(s) == \E i \in 1..Len(s) : s[i] = LoneSurrogate

\* bytes of the UTF-8 encoding, for the characters of Alphabet
ByteLength(s) == Len(s)

\* isByteLength(str, {max}): encodeURI(str).split(/%..|./).length - 1 <= max
isByteLength(s, max) ==
    IF encodeURIThrows(s) THEN Throw ELSE Bool(ByteLength(s) <= max)

\* the tld pattern /^([a-z...]{2,}|xn[a-z0-9-]{2,})$/i on the last label
IsTld(label) == Len(label) >= 2 /\ \A i \in 1..Len(label) : IsLetter(label[i])

\* the label pattern /^[a-z_\u00a1-\uffff0-9-]+$/i (its range covers D800)
IsDomainLabel(label) ==
    /\ Len(label) >= 1
    /\ Len(label) <= MaxLabelLength
    /\ \A i \in 1..Len(label) : IsLetter(label[i]) \/ label[i] = LoneSurrogate

\* isFQDN(domain, {require_tld: true})
isFQDN(domain) ==
    LET parts == Split(domain, ".")
    IN  /\ Len(parts) >= 2
        /\ IsTld(parts[Len(parts)])
        /\ \A i \in 1..Len(parts) : IsDomainLabel(parts[i])

\* emailUserUtf8Part: one or more of the letters, digits and punctuation
\* the pattern lists; neither "@" nor "." nor a surrogate is among them
IsUserPart(part) ==
    Len(part) >= 1 /\ \A i \in 1..Len(part) : IsLetter(part[i])

\* validator.isEmail(str): the length limit, the split at the last "@", the
\* two isByteLength calls (user first), isFQDN on the domain, then the user
\* pattern on every dot-separated part of the user
isEmail(str) ==
    LET parts  == Split(str, "@")
        domain == parts[Len(parts)]
        user   == Join(SubSeq(parts, 1, Len(parts) - 1), "@")
        uparts == Split(user, ".")
    IN  IF Len(str) > defaultMaxEmailLength THEN False
        ELSE IF isByteLength(user, MaxUserBytes) # True
             THEN isByteLength(user, MaxUserBytes)
        ELSE IF isByteLength(domain, MaxDomainBytes) # True
             THEN isByteLength(domain, MaxDomainBytes)
        ELSE IF ~isFQDN(domain) THEN False
        ELSE Bool(\A i \in 1..Len(uparts) : IsUserPart(uparts[i]))

----------------------------------------------------------------------------
(* The resolver *)

\* what a call of a JavaScript function produces
Return(v) == [kind |-> "return", value |-> v]
Thrown(e) == [kind |-> "throw", value |-> <<e>>]

\* the resolver with the two branches of its conditional exchanged
validateEmailSwapped(email) ==
    LET ok == isEmail(email)
    IN  IF ok = Throw THEN Thrown("URIError")
        ELSE IF ok = True
             THEN Return(<<"The email '">> \o email \o <<"' is invalid.">>)
             ELSE Return(<<"The email '">> \o email \o <<"' is valid.">>)

\* the resolver numbering its answers with a counter kept across requests
validateEmailCounting(email) ==
    LET ok == isEmail(email)
        n  == Cardinality({i \in 1..Len(inflight) : inflight[i].sent > 0})
    IN  IF ok = Throw THEN Thrown("URIError")
        ELSE IF ok = True
             THEN Return(<<"The email '">> \o email \o <<"' is valid.", n>>)
             ELSE Return(<<"The email '">> \o email \o <<"' is invalid.", n>>)

\* resolvers.Query.validateEmail: the template literals around the raw
\* argument; there is no try/catch, so an exception of the checker leaves
\* the resolver as an exception
validateEmail(email) ==
    LET ok == isEmail(email)
    IN  IF ok = Throw THEN Thrown("URIError")
        ELSE IF ok = True
             THEN Return(<<"The email '">> \o email \o <<"' is valid.">>)
             ELSE Return(<<"The email '">> \o email \o <<"' is invalid.">>)

----------------------------------------------------------------------------
(* The schema *)

\* schema.graphql as loaded by loadSchemaSync: one query field,
\* validateEmail(email: String!): String
typeDefs ==
    [fields   |-> {"validateEmail"},
     required |-> [f \in {"validateEmail"} |-> {"email"}]]

\* the resolver map: the fields of Query that have a resolver function
resolvers == {"validateEmail"}

makeExecutableSchema(defs, res) == [typeDefs |-> defs, resolvers |-> res]

----------------------------------------------------------------------------
(* Requests *)

GET  == "GET"
POST == "POST"
HEAD == "HEAD"
PUT  == "PUT"
OPTIONS == "OPTIONS"

\* a path is the sequence of its segments
GraphQLPath  == <<"graphql">>
GraphiQLPath == <<"graphiql">>

\* the files the explorer page loads from the static directory `views`
ViewsFiles ==
    {<<"react.development.js">>, <<"react-dom.development.js">>,
     <<"graphiql.min.js">>, <<"graphiql.min.css">>}

\* Accept header classes: application/json (also */* and an absent header),
\* application/graphql-response+json, and a media type the handler cannot
\* produce
AcceptJson    == "application/json"
AcceptGraphQL == "application/graphql-response+json"
AcceptOther   == "text/html"

\* Content-Type classes of a request body
TypeJson  == "application/json"
TypeOther == "text/plain"

\* the GraphQL parameters of a request: the document class, and the value of
\* the email argument when the document is validateEmail(email: ...)
Doc(kind, email) == [kind |-> kind, email |-> email]
NoDoc == Doc("none", <<>>)

ValidEmail    == <<"a", "@", "a", ".", "a", "a">>
InvalidEmail  == <<"a", "@", "a">>
ThrowingEmail == <<LoneSurrogate, "@", "a", ".", "a", "a">>

Req(method, path, accept, ctype, doc) ==
    [method |-> method, path |-> path, accept |-> accept,
     ctype |-> ctype, doc |-> doc]

\* the documents a client sends to /graphql
Docs ==
    {Doc("validateEmail", e) : e \in {ValidEmail, InvalidEmail, ThrowingEmail}}
    \cup
    {Doc(k, <<>>) :
        k \in {"noArgument", "unknownField", "syntaxError", "missingQuery"}}

\* the requests a client sends in the model: every document by GET and by
\* POST under both response media types, the requests the /graphql handler
\* refuses for their method, Accept or Content-Type, and requests for a
\* static file, the explorer page and an unknown path
Requests ==
    {Req(m, GraphQLPath, a, TypeJson, d) :
        m \in {GET, POST}, a \in {AcceptJson, AcceptGraphQL}, d \in Docs}
    \cup
    {Req(PUT,  GraphQLPath, AcceptJson,  TypeJson,
         Doc("validateEmail", ValidEmail)),
     Req(POST, GraphQLPath, AcceptJson,  TypeOther,
         Doc("validateEmail", ValidEmail)),
     Req(GET,  GraphQLPath, AcceptOther, TypeJson,
         Doc("validateEmail", ValidEmail)),
     Req(POST, <<"graphql", "x">>, AcceptJson, TypeJson,
         Doc("validateEmail", InvalidEmail))}
    \cup
    {Req(m, p, AcceptJson, TypeJson, NoDoc) :
        m \in {GET, POST},
        p \in {<<"graphiql.min.js">>, GraphiQLPath, <<"nothing">>}}
    \cup
    {Req(m, GraphiQLPath, AcceptJson, TypeJson, NoDoc) : m \in {HEAD, OPTIONS}}

----------------------------------------------------------------------------
(* Responses *)

NoStore      == "no-store, no-cache, must-revalidate, proxy-revalidate"
PublicMaxAge == "public, max-age=0"
Unset        == "unset"

Absent == <<"absent">>
Null   == <<"null">>

\* a response: status, Content-Type, Cache-Control and the body; a JSON body
\* has a data member, an errors member, or both
Response(status, ctype, cache, kind, data, errors) ==
    [status |-> status, contentType |-> ctype, cacheControl |-> cache,
     kind |-> kind, data |-> data, errors |-> errors]

None == Response(0, Unset, Unset, "none", Absent, <<>>)

ExplorerPage == <<"<div id=\"graphiql\">">>

----------------------------------------------------------------------------
(* A request in the server: the request, where it waits, the next layer of
   the stack, the Cache-Control header set on its response object so far, the
   response written, the handler that wrote it, the processing steps taken
   in order, and the number of responses written *)

NewRequest(r) ==
    [req |-> r, stage |-> "routing", pos |-> 1, cacheControl |-> Unset,
     res |-> None, by |-> "nobody", trace |-> <<>>, sent |-> 0]

Step(rec, name) == [rec EXCEPT !.trace = Append(@, name)]

\* next(): hand the request to the following layer
PassOn(rec) == [rec EXCEPT !.pos = @ + 1, !.stage = "routing"]

\* writing the response ends the request; headers set on the response
\* object earlier go out with it
Respond(rec, handler, status, ctype, kind, data, errors) ==
    [Step(rec, "send") EXCEPT
        !.stage = "done",
        !.by    = handler,
        !.sent  = @ + 1,
        !.res   = Response(status, ctype, rec.cacheControl, kind, data, errors)]

----------------------------------------------------------------------------
(* The layers of the stack *)

StaticLayer   == [kind |-> "static",          route |-> <<>>]
CacheLayer    == [kind |-> "addCacheHeaders", route |-> <<>>]
GraphQLLayer  == [kind |-> "graphql",         route |-> GraphQLPath]
GraphiQLLayer == [kind |-> "graphiql",        route |-> GraphiQLPath]

IsPrefix(p, q) == Len(p) <= Len(q) /\ SubSeq(q, 1, Len(p)) = p

\* the route registered for every method, as app.all or app.use would
MatchesAnyMethod(layer, r) ==
    IF layer.kind = "graphiql"
    THEN r.path = layer.route
    ELSE IsPrefix(layer.route, r.path)

\* app.use(path, fn) matches every method and every path under `path`;
\* app.get(path, fn) matches the path itself, for GET and for HEAD
Matches(layer, r) ==
    IF layer.kind = "graphiql"
    THEN r.path = layer.route /\ r.method \in {GET, HEAD}
    ELSE IsPrefix(layer.route, r.path)

\* express.static, first half: only GET and HEAD are looked up on disk, any
\* other method falls through at once
serveStaticStart(rec) ==
    IF rec.req.method \in {GET, HEAD}
    THEN [Step(rec, "static") EXCEPT !.stage = "static"]
    ELSE PassOn(rec)

\* express.static, second half, when the lookup returns: the file is sent
\* with Cache-Control public, max-age=0 unless the header is already set;
\* without a file the request falls through
serveStaticDone(rec) ==
    IF rec.req.path \in ViewsFiles
    THEN Respond([rec EXCEPT !.cacheControl =
                      IF @ = Unset THEN PublicMaxAge ELSE @],
                 "static", 200, "file", "file", rec.req.path, <<>>)
    ELSE PassOn(rec)

\* addCacheHeaders(req, res, next)
addCacheHeaders(rec) ==
    PassOn([Step(rec, "addCacheHeaders") EXCEPT !.cacheControl = NoStore])

\* the handler of createHandler({schema}), up to reading the request
\* parameters: the Accept header, the method and the Content-Type
graphqlStart(rec) ==
    LET r == rec.req
        h == Step(rec, "endpoint")
    IN  IF r.accept \notin {AcceptJson, AcceptGraphQL}
        THEN Respond(h, "graphql", 406, Unset, "empty", Absent, <<>>)
        ELSE IF r.method \notin {GET, POST}
        THEN Respond(h, "graphql", 405, Unset, "empty", Absent, <<>>)
        ELSE IF r.method = POST /\ r.ctype # TypeJson
        THEN Respond(h, "graphql", 415, Unset, "empty", Absent, <<>>)
        ELSE [h EXCEPT !.stage = "graphql"]

\* the route of setupGraphiQL: res.send of the fixed page
graphiqlRoute(rec) ==
    Respond(Step(rec, "graphiql"), "graphiql", 200, "text/html", "html",
            ExplorerPage, <<>>)

\* Express's final handler, reached when no layer answered
finalhandler(rec) ==
    Respond(rec, "finalhandler", 404, "text/html", "html",
            <<"Cannot ", rec.req.method>> \o rec.req.path, <<>>)

\* the router's automatic answer to an OPTIONS request whose path has a
\* route: 200 with an Allow header
optionsResponse(rec) ==
    Respond(rec, "router", 200, "text/html", "html", <<"GET,HEAD">>, <<>>)

\* app.handle: the layers run in registration order, synchronously, until
\* one answers or waits
RECURSIVE Run(_, _)
Run(rec, stack) ==
    IF rec.pos > Len(stack)
    THEN IF /\ rec.req.method = OPTIONS
            /\ \E k \in 1..Len(stack) :
                  stack[k].kind = "graphiql" /\ stack[k].route = rec.req.path
         THEN optionsResponse(rec)
         ELSE finalhandler(rec)
    ELSE LET layer == stack[rec.pos]
         IN  IF ~Matches(layer, rec.req) THEN Run(PassOn(rec), stack)
             ELSE IF layer.kind = "static"
                  THEN LET s == serveStaticStart(rec)
                       IN  IF s.stage = "static" THEN s ELSE Run(s, stack)
             ELSE IF layer.kind = "addCacheHeaders"
                  THEN Run(addCacheHeaders(rec), stack)
             ELSE IF layer.kind = "graphql" THEN graphqlStart(rec)
             ELSE graphiqlRoute(rec)

----------------------------------------------------------------------------
(* GraphQL execution *)

DocField(doc) ==
    IF doc.kind = "unknownField" THEN "unknown" ELSE "validateEmail"

DocArguments(doc) == IF doc.kind = "validateEmail" THEN {"email"} ELSE {}

\* validation that checks field names only
validateFieldsOnly(sch, doc) ==
    IF DocField(doc) \notin sch.typeDefs.fields
    THEN <<"Cannot query field">>
    ELSE <<>>

\* validate(schema, document): an unknown field, or a required argument
\* that the document does not give
validate(sch, doc) ==
    IF DocField(doc) \notin sch.typeDefs.fields
    THEN <<"Cannot query field">>
    ELSE IF ~(sch.typeDefs.required[DocField(doc)] \subseteq DocArguments(doc))
    THEN <<"argument of type String! is required">>
    ELSE <<>>

\* a response made of GraphQL errors only: 400 under
\* application/graphql-response+json, 200 under application/json
errorsResponse(rec, errors) ==
    Respond(rec, "graphql",
            IF rec.req.accept = AcceptJson THEN 200 ELSE 400,
            rec.req.accept, "json", Absent, errors)

\* execute(): the field's resolver is called; its exception becomes an
\* errors entry next to a null data value
executeField(rec, sch) ==
    LET e       == Step(rec, "resolver")
        outcome == validateEmail(rec.req.doc.email)
        c       == Step(e, "checker")
        w       == Step(c, "envelope")
    IN  IF DocField(rec.req.doc) \notin sch.resolvers
        THEN Respond(Step(rec, "envelope"), "graphql", 200, rec.req.accept,
                     "json", Null, <<>>)
        ELSE IF outcome.kind = "throw"
        THEN Respond(w, "graphql", 200, rec.req.accept, "json",
                     Null, outcome.value)
        ELSE Respond(w, "graphql", 200, rec.req.accept, "json",
                     outcome.value, <<>>)

\* the handler of createHandler({schema}) once the request parameters are
\* read: missing query, parse, validate, execute, respond
graphqlExecute(rec, sch) ==
    LET doc == rec.req.doc
        p   == Step(rec, "parse")
        v   == Step(p, "validate")
    IN  IF doc.kind = "missingQuery"
        THEN Respond(rec, "graphql", 400, AcceptJson, "json", Absent,
                     <<"Missing query">>)
        ELSE IF doc.kind = "syntaxError"
        THEN errorsResponse(p, <<"Syntax Error">>)
        ELSE IF validate(sch, doc) # <<>>
        THEN errorsResponse(v, validate(sch, doc))
        ELSE executeField(v, sch)

----------------------------------------------------------------------------
(* The entry script *)

Entries == {"server.js", "part_000"}

Init ==
    /\ entry \in Entries
    /\ pc = "static"
    /\ schema = makeExecutableSchema(typeDefs, resolvers)
    /\ app = <<>>
    /\ inflight = <<>>
    /\ arg = <<>>
    /\ ret = [kind |-> "pending", value |-> <<>>]

\* app.use(express.static(...))
UseStatic ==
    /\ pc = "static"
    /\ app' = Append(app, StaticLayer)
    /\ pc' = IF entry = "part_000" THEN "addCacheHeaders"
             ELSE "setupGraphQLEndpoint"
    /\ UNCHANGED <<entry, schema, inflight, arg, ret>>

\* app.use(addCacheHeaders), in part_000 only
UseAddCacheHeaders ==
    /\ pc = "addCacheHeaders"
    /\ app' = Append(app, CacheLayer)
    /\ pc' = "setupGraphQLEndpoint"
    /\ UNCHANGED <<entry, schema, inflight, arg, ret>>

setupGraphQLEndpoint ==
    /\ pc = "setupGraphQLEndpoint"
    /\ app' = Append(app, GraphQLLayer)
    /\ pc' = "setupGraphiQL"
    /\ UNCHANGED <<entry, schema, inflight, arg, ret>>

setupGraphiQL ==
    /\ pc = "setupGraphiQL"
    /\ app' = Append(app, GraphiQLLayer)
    /\ pc' = "listen"
    /\ UNCHANGED <<entry, schema, inflight, arg, ret>>

\* app.listen(PORT, ...)
Listen ==
    /\ pc = "listen"
    /\ pc' = "listening"
    /\ UNCHANGED <<entry, schema, app, inflight, arg, ret>>

----------------------------------------------------------------------------
(* Serving requests *)

\* a request handler that registers the explorer route again on each request
ReceiveRegistering(r) ==
    /\ pc = "listening"
    /\ Len(inflight) < MaxRequests
    /\ inflight' = Append(inflight, Run(NewRequest(r), app))
    /\ app' = Append(app, GraphiQLLayer)
    /\ UNCHANGED <<entry, pc, schema, arg, ret>>

\* a request arrives and the stack runs until a layer answers or waits
Receive(r) ==
    /\ pc = "listening"
    /\ Len(inflight) < MaxRequests
    /\ inflight' = Append(inflight, Run(NewRequest(r), app))
    /\ UNCHANGED <<entry, pc, schema, app, arg, ret>>

\* the file lookup of express.static returns
StaticDone(i) ==
    /\ i <= Len(inflight)
    /\ inflight[i].stage = "static"
    /\ LET s == serveStaticDone(inflight[i])
       IN  inflight' = [inflight EXCEPT ![i] =
                           IF s.stage = "done" THEN s ELSE Run(s, app)]
    /\ UNCHANGED <<entry, pc, schema, app, arg, ret>>

\* the handler reading the parameters from a variable that every arriving
\* request overwrites
ExecuteSharedParams(i) ==
    /\ i <= Len(inflight)
    /\ inflight[i].stage = "graphql"
    /\ LET latest == inflight[Len(inflight)].req.doc
           served == graphqlExecute([inflight[i] EXCEPT !.req.doc = latest],
                                    schema)
       IN  inflight' = [inflight EXCEPT ![i] =
                           [served EXCEPT !.req = inflight[i].req]]
    /\ UNCHANGED <<entry, pc, schema, app, arg, ret>>

\* the request parameters of a /graphql request are read
Execute(i) ==
    /\ i <= Len(inflight)
    /\ inflight[i].stage = "graphql"
    /\ inflight' = [inflight EXCEPT ![i] = graphqlExecute(inflight[i], schema)]
    /\ UNCHANGED <<entry, pc, schema, app, arg, ret>>

Next ==
    \/ UseStatic
    \/ UseAddCacheHeaders
    \/ setupGraphQLEndpoint
    \/ setupGraphiQL
    \/ Listen
    \/ \E r \in Requests : Receive(r)
    \/ \E i \in 1..MaxRequests : StaticDone(i)
    \/ \E i \in 1..MaxRequests : Execute(i)

Spec == Init /\ [][Next]_vars

----------------------------------------------------------------------------
(* Direct calls of the resolver, with every string up to MaxLen *)

Pending == [kind |-> "pending", value |-> <<>>]

InitResolver ==
    /\ entry = "server.js"
    /\ pc = "static"
    /\ schema = makeExecutableSchema(typeDefs, resolvers)
    /\ app = <<>>
    /\ inflight = <<>>
    /\ arg \in Strings
    /\ ret = Pending

\* validateEmail(_, { email })
CallResolver ==
    /\ ret = Pending
    /\ ret' = validateEmail(arg)
    /\ UNCHANGED <<entry, pc, schema, app, inflight, arg>>

NextResolver == CallResolver

SpecResolver == InitResolver /\ [][NextResolver]_vars

----------------------------------------------------------------------------
(* Vocabulary of the properties *)

Received == 1..Len(inflight)

Done(i) == inflight[i].stage = "done"

Took(i, step) == \E k \in 1..Len(inflight[i].trace) : inflight[i].trace[k] = step

\* the position of a step in the steps a request took, 0 when not taken
StepAt(i, step) ==
    IF Took(i, step)
    THEN CHOOSE k \in 1..Len(inflight[i].trace) : inflight[i].trace[k] = step
    ELSE 0

\* a request the /graphql handler reads parameters from: GET or POST under
\* /graphql, with a response media type the handler can produce and, for
\* POST, a JSON body
IsGraphQLCall(r) ==
    /\ IsPrefix(GraphQLPath, r.path)
    /\ r.method \in {GET, POST}
    /\ r.accept \in {AcceptJson, AcceptGraphQL}
    /\ r.method = POST => r.ctype = TypeJson

\* the stack each entry script registers before it listens
Registered(e) ==
    IF e = "part_000"
    THEN <<StaticLayer, CacheLayer, GraphQLLayer, GraphiQLLayer>>
    ELSE <<StaticLayer, GraphQLLayer, GraphiQLLayer>>

\* the request served with no other request in the server
ServedAlone(r, e) ==
    LET sch == makeExecutableSchema(typeDefs, resolvers)
        a == Run(NewRequest(r), Registered(e))
        b == IF a.stage = "static"
             THEN LET s == serveStaticDone(a)
                  IN  IF s.stage = "done" THEN s ELSE Run(s, Registered(e))
             ELSE a
    IN  IF b.stage = "graphql" THEN graphqlExecute(b, sch) ELSE b

----------------------------------------------------------------------------
(* C1 *)

\* C1: a direct call of the resolver with the string arg returns exactly
\* "The email '<arg>' is valid." when the checker reports true for arg
\* itself and exactly "The email '<arg>' is invalid." when it reports false,
\* and it returns no string in any other case.
C1_ResolverMessage ==
    ret # Pending =>
        /\ isEmail(arg) = True =>
              ret = Return(<<"The email '">> \o arg \o <<"' is valid.">>)
        /\ isEmail(arg) = False =>
              ret = Return(<<"The email '">> \o arg \o <<"' is invalid.">>)
        /\ ret.kind = "return" => isEmail(arg) \in {True, False}

C1_Witness ==
    /\ arg = ValidEmail
    /\ ret = Return(<<"The email '", "a", "@", "a", ".", "a", "a",
                      "' is valid.">>)

----------------------------------------------------------------------------
(* C2 *)

\* C2: every response the server has sent carries Cache-Control: no-store,
\* no-cache, must-revalidate, proxy-revalidate.
C2_EveryResponseNoStore ==
    \A i \in Received :
        inflight[i].sent > 0 => inflight[i].res.cacheControl = NoStore

----------------------------------------------------------------------------
(* C3 *)

OmitsEmail(i) ==
    IsGraphQLCall(inflight[i].req) /\ inflight[i].req.doc.kind = "noArgument"

----------------------------------------------------------------------------
(* C4 *)

\* C4: for a request under /graphql, the status follows the request class:
\* 200 with {"data": {"validateEmail": <message>}} and no errors for a
\* validateEmail query by GET or POST, 400 with errors for a document that
\* fails parsing or validation, 405 for any other method.
C4_StatusByClass ==
    \A i \in Received :
        LET r == inflight[i].req
            a == inflight[i].res
        IN  (Done(i) /\ IsPrefix(GraphQLPath, r.path)
                     /\ r.accept \in {AcceptJson, AcceptGraphQL}) =>
              /\ r.method \notin {GET, POST} => a.status = 405
              /\ (IsGraphQLCall(r) /\ r.doc.kind = "validateEmail") =>
                    /\ a.status = 200
                    /\ a.errors = <<>>
                    /\ a.data \in
                         {<<"The email '">> \o r.doc.email \o <<"' is valid.">>,
                          <<"The email '">> \o r.doc.email \o <<"' is invalid.">>}
              /\ (IsGraphQLCall(r) /\ r.doc.kind \in
                      {"syntaxError", "unknownField", "noArgument"}) =>
                    /\ a.status = 400
                    /\ a.errors # <<>>

----------------------------------------------------------------------------
(* C5 *)

\* C5: two requests that are the same request receive the same response,
\* whatever was served before either of them.
C5_SameRequestSameResponse ==
    \A i, j \in Received :
        (Done(i) /\ Done(j) /\ inflight[i].req = inflight[j].req) =>
            inflight[i].res = inflight[j].res

C5_Witness ==
    \E i, j \in Received :
        /\ i # j /\ Done(i) /\ Done(j)
        /\ inflight[i].req = inflight[j].req
        /\ inflight[i].req.doc = Doc("validateEmail", InvalidEmail)
        /\ inflight[i].res.data = <<"The email '", "a", "@", "a", "' is invalid.">>

----------------------------------------------------------------------------
(* C6 *)

\* C6: when the checker throws on the email of a validateEmail query, the
\* response carries the "is invalid." message as data and no errors entry.
C6_ThrowMappedToInvalid ==
    \A i \in Received :
        LET r == inflight[i].req
        IN  (Done(i) /\ IsGraphQLCall(r) /\ r.doc.kind = "validateEmail"
                     /\ isEmail(r.doc.email) = Throw) =>
              /\ inflight[i].res.errors = <<>>
              /\ inflight[i].res.data =
                     <<"The email '">> \o r.doc.email \o <<"' is invalid.">>

----------------------------------------------------------------------------
(* C7 *)

\* C7: with several requests in the server at once, every answered request
\* has the response, the answering handler and the steps it has when served
\* alone, and a request whose resolver has started is already answered (the
\* resolver does not wait).
C7_Isolated ==
    \A i \in Received :
        /\ Done(i) =>
              /\ inflight[i].res = ServedAlone(inflight[i].req, entry).res
              /\ inflight[i].by = ServedAlone(inflight[i].req, entry).by
              /\ inflight[i].trace = ServedAlone(inflight[i].req, entry).trace
        /\ Took(i, "resolver") => Done(i)

C7_Witness ==
    \E i, j \in Received :
        /\ i < j
        /\ inflight[i].stage = "graphql"
        /\ inflight[i].req.doc = Doc("validateEmail", ValidEmail)
        /\ Done(j)
        /\ inflight[j].req.doc = Doc("validateEmail", InvalidEmail)
        /\ inflight[j].res.data = <<"The email '", "a", "@", "a", "' is invalid.">>

----------------------------------------------------------------------------
(* C8 *)

\* C8: once the server listens, no step changes the schema, the resolver
\* map, the stack of middleware and routes, the script position or the entry
\* script, and a step on one request leaves every other request as it was.
C8_Frame ==
    [][pc = "listening" =>
          /\ schema' = schema
          /\ app' = app
          /\ pc' = pc
          /\ entry' = entry
          /\ \A i, j \in Received :
                (i # j /\ inflight'[i] # inflight[i]) =>
                    inflight'[j] = inflight[j]]_vars

C8_Witness ==
    /\ pc = "listening"
    /\ app = Registered(entry)
    /\ schema = makeExecutableSchema(typeDefs, resolvers)
    /\ \E i, j \in Received :
          /\ Done(i) /\ inflight[i].res.status = 400
          /\ Done(j) /\ inflight[j].res.status = 404

----------------------------------------------------------------------------
(* C9 *)

\* C9: a request the /graphql handler has started on was annotated by the
\* Cache-Control middleware first, and its steps come in the order
\* middleware, endpoint, parse, validate, resolver, checker, envelope, send.
C9_Order ==
    \A i \in Received :
        Took(i, "endpoint") =>
            /\ Took(i, "addCacheHeaders")
            /\ StepAt(i, "addCacheHeaders") < StepAt(i, "endpoint")
            /\ inflight[i].cacheControl = NoStore
            /\ Took(i, "resolver") =>
                  /\ StepAt(i, "endpoint") < StepAt(i, "parse")
                  /\ StepAt(i, "parse") < StepAt(i, "validate")
                  /\ StepAt(i, "validate") < StepAt(i, "resolver")
                  /\ StepAt(i, "resolver") < StepAt(i, "checker")
                  /\ StepAt(i, "checker") < StepAt(i, "envelope")
                  /\ StepAt(i, "envelope") < StepAt(i, "send")

----------------------------------------------------------------------------
(* C10 *)

\* the handler C10 names for a request
AnsweredByAsStated(r) ==
    IF r.path \in ViewsFiles THEN "static"
    ELSE IF IsPrefix(GraphQLPath, r.path) THEN "graphql"
    ELSE IF r.method = GET /\ r.path = GraphiQLPath THEN "graphiql"
    ELSE "finalhandler"

\* the same, with the methods the static handler and the route accept and
\* the router's own answer to OPTIONS
AnsweredByAmended(r) ==
    IF r.path \in ViewsFiles /\ r.method \in {GET, HEAD} THEN "static"
    ELSE IF IsPrefix(GraphQLPath, r.path) THEN "graphql"
    ELSE IF r.method \in {GET, HEAD} /\ r.path = GraphiQLPath THEN "graphiql"
    ELSE IF r.method = OPTIONS /\ r.path = GraphiQLPath THEN "router"
    ELSE "finalhandler"

\* what C10 says of request i once `handler` is the handler meant to answer
AnsweredOnceBy(i, handler) ==
    /\ inflight[i].sent <= 1
    /\ ~Done(i) => inflight[i].sent = 0 /\ inflight[i].stage \in {"static", "graphql"}
    /\ Done(i) =>
          /\ inflight[i].sent = 1
          /\ inflight[i].by = handler
          /\ handler = "static" =>
                /\ ~Took(i, "endpoint")
                /\ ~Took(i, "graphiql")
          /\ handler = "graphiql" =>
                /\ inflight[i].res.status = 200
                /\ inflight[i].res.contentType = "text/html"
                /\ inflight[i].res.data = ExplorerPage
          /\ handler = "router" => inflight[i].res.status = 200
          /\ handler = "finalhandler" => inflight[i].res.status = 404

\* C10 as stated: every request is answered exactly once, by the static
\* handler when its path names a file of the static directory, otherwise by
\* the /graphql handler for a path under /graphql, otherwise by the explorer
\* page for GET /graphiql (200, HTML, always the same page), otherwise by the
\* routing fallback with 404.
C10_AnsweredAsStated ==
    \A i \in Received : AnsweredOnceBy(i, AnsweredByAsStated(inflight[i].req))

\* C10 amended: the same, where the static handler answers only GET and HEAD
\* requests for a file (any other method falls through to the later
\* handlers), the explorer page answers GET and HEAD /graphiql, and the
\* router itself answers OPTIONS /graphiql with status 200.
C10_AnsweredOnce ==
    \A i \in Received : AnsweredOnceBy(i, AnsweredByAmended(inflight[i].req))

C10_Witness ==
    \E i, j \in Received :
        /\ Done(i)
        /\ inflight[i].req.method = POST
        /\ inflight[i].req.path = <<"graphiql.min.js">>
        /\ inflight[i].by = "finalhandler"
        /\ Done(j)
        /\ inflight[j].req.method = HEAD
        /\ inflight[j].by = "graphiql"

====
